---------------------------- MODULE Spec2Model ----------------------------
(***************************************************************************)
(* A model of grd_reader: the line-oriented parser read_grd and the lookup *)
(* layer of GraphData / CurveData (src/grd_reader/__init__.py).            *)
(*                                                                         *)
(* A Python str is a sequence of one-character strings, so that            *)
(* startswith, split, strip and replace are computed character by          *)
(* character as the interpreter computes them.  A float is held as an      *)
(* integer number of tenths (1.5 is 15): the inputs of the model carry at  *)
(* most one fractional digit, which keeps parsing and subtraction exact.   *)
(* A numpy array is a record [ndim, v]: ndim = 0 holds a scalar in v,      *)
(* ndim = 1 a sequence of numbers, ndim = 2 a sequence of rows.            *)
(***************************************************************************)
EXTENDS Integers, Sequences, FiniteSets

(***************************************************************************)
(* str methods                                                             *)
(***************************************************************************)
Digits == <<"0","1","2","3","4","5","6","7","8","9">>

\* str.isspace for one character
IsSpace(c) == c \in {" ", "\t"}

\* s.startswith(p)
StartsWith(s, p) == Len(s) >= Len(p) /\ SubSeq(s, 1, Len(p)) = p

\* s.strip()
Strip(s) ==
    LET keep == {i \in 1..Len(s) : ~IsSpace(s[i])}
    IN  IF keep = {} THEN <<>>
        ELSE SubSeq(s, CHOOSE i \in keep : \A j \in keep : i <= j,
                       CHOOSE i \in keep : \A j \in keep : i >= j)

\* s.lstrip()
LStrip(s) ==
    LET keep == {i \in 1..Len(s) : ~IsSpace(s[i])}
    IN  IF keep = {} THEN <<>>
        ELSE SubSeq(s, CHOOSE i \in keep : \A j \in keep : i <= j, Len(s))

\* s.replace(a, b) for one-character a and b
Replace(s, a, b) == [i \in 1..Len(s) |-> IF s[i] = a THEN b ELSE s[i]]

\* s.find(c) + 1 for a one-character c: 0 when c does not occur
Find(s, c) ==
    LET at == {i \in 1..Len(s) : s[i] = c}
    IN  IF at = {} THEN 0 ELSE CHOOSE i \in at : \A j \in at : i <= j

\* s.split(sep, maxsplit=k) for a one-character sep; k = -1 is no limit
RECURSIVE SplitSep(_, _, _)
SplitSep(s, sep, k) ==
    LET i == Find(s, sep)
    IN  IF k = 0 \/ i = 0 THEN <<s>>
        ELSE <<SubSeq(s, 1, i - 1)>> \o SplitSep(SubSeq(s, i + 1, Len(s)), sep, k - 1)

\* s.split(maxsplit=k): split on runs of whitespace; k = -1 is no limit
RECURSIVE Split(_, _)
Split(s, k) ==
    LET ls == LStrip(s)
        ws == {i \in 1..Len(ls) : IsSpace(ls[i])}
        e  == IF ws = {} THEN Len(ls) + 1 ELSE CHOOSE i \in ws : \A j \in ws : i <= j
    IN  IF ls = <<>> THEN <<>>
        ELSE IF k = 0 THEN <<ls>>
        ELSE <<SubSeq(ls, 1, e - 1)>> \o Split(SubSeq(ls, e, Len(ls)), k - 1)

\* f"{n:d}"
RECURSIVE FormatD(_)
FormatD(n) ==
    IF n < 0 THEN <<"-">> \o FormatD(-n)
    ELSE IF n < 10 THEN <<Digits[n + 1]>>
    ELSE FormatD(n \div 10) \o <<Digits[(n % 10) + 1]>>

IsDigit(c) == \E d \in 1..10 : Digits[d] = c

DigitVal(c) == (CHOOSE d \in 1..10 : Digits[d] = c) - 1

RECURSIVE DigitsVal(_)
DigitsVal(s) ==
    IF s = <<>> THEN 0 ELSE DigitsVal(SubSeq(s, 1, Len(s) - 1)) * 10 + DigitVal(s[Len(s)])

Unsigned(s) == IF s # <<>> /\ s[1] \in {"+", "-"} THEN Tail(s) ELSE s

Sign(s) == IF s # <<>> /\ s[1] = "-" THEN -1 ELSE 1

\* int(s) raises ValueError unless IsInt(s)
IsInt(s) ==
    LET u == Unsigned(Strip(s))
    IN  u # <<>> /\ \A i \in 1..Len(u) : IsDigit(u[i])

\* int(s)
IntVal(s) == Sign(Strip(s)) * DigitsVal(Unsigned(Strip(s)))

\* float(s) raises ValueError unless IsFloat(s)
IsFloat(s) ==
    LET u == Unsigned(s)
    IN  /\ \A i \in 1..Len(u) : IsDigit(u[i]) \/ u[i] = "."
        /\ Cardinality({i \in 1..Len(u) : u[i] = "."}) <= 1
        /\ \E i \in 1..Len(u) : IsDigit(u[i])

\* float(s), in tenths
FloatVal(s) ==
    LET u == Unsigned(s)
        p == SplitSep(u, ".", 1)
        f == IF Len(p) = 2 /\ p[2] # <<>> THEN DigitVal(p[2][1]) ELSE 0
    IN  Sign(s) * (DigitsVal(p[1]) * 10 + f)

(***************************************************************************)
(* The literals of read_grd                                                *)
(***************************************************************************)
\* "#START"
TagStart ==
    <<"#","S","T","A","R","T">>
\* " Sample name :"
TagSampleName ==
    <<" ","S","a","m","p","l","e"," ","n","a","m","e"," ",":">>
\* " Date        :"
TagDate ==
    <<" ","D","a","t","e"," "," "," "," "," "," "," "," ",":">>
\* " Specific inf:"
TagSpecificInf ==
    <<" ","S","p","e","c","i","f","i","c"," ","i","n","f",":">>
\* " User info   :"
TagUserInfo ==
    <<" ","U","s","e","r"," ","i","n","f","o"," "," "," ",":">>
\* "#START comment"
TagStartComment ==
    <<"#","S","T","A","R","T"," ","c","o","m","m","e","n","t">>
\* "#END comment"
TagEndComment ==
    <<"#","E","N","D"," ","c","o","m","m","e","n","t">>
\* "#START axis description"
TagStartAxes ==
    <<"#","S","T","A","R","T"," ","a","x","i","s"," ","d","e","s","c","r","i","p","t","i","o","n">>
\* "#END axis description"
TagEndAxes ==
    <<"#","E","N","D"," ","a","x","i","s"," ","d","e","s","c","r","i","p","t","i","o","n">>
\* "#START Curve description"
TagCurveDescription ==
    <<"#","S","T","A","R","T"," ","C","u","r","v","e"," ","d","e","s","c","r","i","p","t","i","o","n">>
\* "#START Date:"
TagCurveDate ==
    <<"#","S","T","A","R","T"," ","D","a","t","e",":">>
\* "#START Time:"
TagCurveTime ==
    <<"#","S","T","A","R","T"," ","T","i","m","e",":">>
\* "#START Curve Legend "
TagCurveLegend ==
    <<"#","S","T","A","R","T"," ","C","u","r","v","e"," ","L","e","g","e","n","d"," ">>
\* "#START Curve "
TagCurveN ==
    <<"#","S","T","A","R","T"," ","C","u","r","v","e"," ">>
\* "#START Curve Data"
TagCurveData ==
    <<"#","S","T","A","R","T"," ","C","u","r","v","e"," ","D","a","t","a">>
\* "#END Curve "
TagEndCurveN ==
    <<"#","E","N","D"," ","C","u","r","v","e"," ">>
\* " -"
TagDash ==
    <<" ","-">>

(***************************************************************************)
(* Lines of files                                                          *)
(***************************************************************************)
\* ""
LineBlank ==
    <<>>
\* " "
LineSpace ==
    <<" ">>
\* " note "
LineText ==
    <<" ","n","o","t","e"," ">>
\* " Sample name : S1"
LineSampleName ==
    <<" ","S","a","m","p","l","e"," ","n","a","m","e"," ",":"," ","S","1">>
\* " Date        : d0"
LineDate ==
    <<" ","D","a","t","e"," "," "," "," "," "," "," "," ",":"," ","d","0">>
\* " Date        : 1:2"
LineDateTime ==
    <<" ","D","a","t","e"," "," "," "," "," "," "," "," ",":"," ","1",":","2">>

\* " Specific inf: i"
LineSpecificInf ==
    <<" ","S","p","e","c","i","f","i","c"," ","i","n","f",":"," ","i">>
\* " User info   : u"
LineUserInfo ==
    <<" ","U","s","e","r"," ","i","n","f","o"," "," "," ",":"," ","u">>
\* "#START"
LineStart ==
    <<"#","S","T","A","R","T">>
\* "#START comment"
LineStartComment ==
    <<"#","S","T","A","R","T"," ","c","o","m","m","e","n","t">>
\* "#END comment"
LineEndComment ==
    <<"#","E","N","D"," ","c","o","m","m","e","n","t">>
\* "#START axis description"
LineStartAxes ==
    <<"#","S","T","A","R","T"," ","a","x","i","s"," ","d","e","s","c","r","i","p","t","i","o","n">>
\* "#END axis description"
LineEndAxes ==
    <<"#","E","N","D"," ","a","x","i","s"," ","d","e","s","c","r","i","p","t","i","o","n">>
\* "No Unit Name"
LineAxisHeader ==
    <<"N","o"," ","U","n","i","t"," ","N","a","m","e">>
\* "1 2 3 4 5 6 7 8 9 s T"
LineAxis11 ==
    <<"1"," ","2"," ","3"," ","4"," ","5"," ","6"," ","7"," ","8"," ","9"," ","s"," ","T">>
\* "1 2 3 4 5 6 7 8 9 V U x"
LineAxis12 ==
    <<"1"," ","2"," ","3"," ","4"," ","5"," ","6"," ","7"," ","8"," ","9"," ","V"," ","U"," ","x">>
\* "s T"
LineAxis2 ==
    <<"s"," ","T">>
\* "#START Curve description 0"
LineCurveDesc0 ==
    <<"#","S","T","A","R","T"," ","C","u","r","v","e"," ","d","e","s","c","r","i","p","t","i","o","n"," ","0">>
\* "#START Curve description 1"
LineCurveDesc1 ==
    <<"#","S","T","A","R","T"," ","C","u","r","v","e"," ","d","e","s","c","r","i","p","t","i","o","n"," ","1">>
\* "#START Curve description 2"
LineCurveDesc2 ==
    <<"#","S","T","A","R","T"," ","C","u","r","v","e"," ","d","e","s","c","r","i","p","t","i","o","n"," ","2">>
\* "#START Curve description"
LineCurveDescBad ==
    <<"#","S","T","A","R","T"," ","C","u","r","v","e"," ","d","e","s","c","r","i","p","t","i","o","n">>
\* "#START Date: d1"
LineCurveDate ==
    <<"#","S","T","A","R","T"," ","D","a","t","e",":"," ","d","1">>
\* "#START Time: 10,0 12,5"
LineTime ==
    <<"#","S","T","A","R","T"," ","T","i","m","e",":"," ","1","0",",","0"," ","1","2",",","5">>
\* "#START Time: 1.5 1"
LineTimeDot ==
    <<"#","S","T","A","R","T"," ","T","i","m","e",":"," ","1",".","5"," ","1">>
\* "#START Time: 1 x"
LineTimeBad ==
    <<"#","S","T","A","R","T"," ","T","i","m","e",":"," ","1"," ","x">>
\* "#START Time: 1 2 x"
LineTimeExtra ==
    <<"#","S","T","A","R","T"," ","T","i","m","e",":"," ","1"," ","2"," ","x">>
\* "#START Time: 1"
LineTimeOne ==
    <<"#","S","T","A","R","T"," ","T","i","m","e",":"," ","1">>
\* "#START Time: 1 2:3"
LineTimeColon ==
    <<"#","S","T","A","R","T"," ","T","i","m","e",":"," ","1"," ","2",":","3">>
\* "#START Curve Legend : k"
LineLegend ==
    <<"#","S","T","A","R","T"," ","C","u","r","v","e"," ","L","e","g","e","n","d"," ",":"," ","k">>
\* "#START Curve 1 points = 2"
LinePoints1 ==
    <<"#","S","T","A","R","T"," ","C","u","r","v","e"," ","1"," ","p","o","i","n","t","s"," ","="," ","2">>
\* "#START Curve Data"
LineCurveData ==
    <<"#","S","T","A","R","T"," ","C","u","r","v","e"," ","D","a","t","a">>
\* "#END Curve 0 -"
LineEndCurve0 ==
    <<"#","E","N","D"," ","C","u","r","v","e"," ","0"," ","-">>
\* "#END Curve 1 -"
LineEndCurve1 ==
    <<"#","E","N","D"," ","C","u","r","v","e"," ","1"," ","-">>
\* "0.0 1,5"
LineRowA ==
    <<"0",".","0"," ","1",",","5">>
\* "1.0 2,5"
LineRowB ==
    <<"1",".","0"," ","2",",","5">>
\* "3"
LineRowC ==
    <<"3">>
\* "1 x"
LineRowBad ==
    <<"1"," ","x">>

(***************************************************************************)
(* numpy arrays, as far as read_grd and the lookups use them               *)
(***************************************************************************)
\* np.empty(0)
NpEmpty0 == [ndim |-> 1, v |-> <<>>]

\* a.shape[0] of an array of one or two dimensions
Shape0(a) == Len(a.v)

\* np.fromiter(row, dtype=np.float64)
NpFromIter(row) == [ndim |-> 1, v |-> row]

\* the rows of np.atleast_2d(a)
AtLeast2d(a) == IF a.ndim = 1 THEN <<a.v>> ELSE a.v

\* rows stacked without a check of their width, as a list of rows would take them
VStackUnchecked(a, row) == TRUE

\* rows stacked when they are no wider than the rows already held
VStackNarrowerOk(a, row) == Len(row) <= Len(AtLeast2d(a)[1])

\* np.vstack((a, row)) raises ValueError unless the column counts agree
VStackOk(a, row) == Len(AtLeast2d(a)[1]) = Len(row)

\* np.vstack((a, row))
NpVStack(a, row) == [ndim |-> 2, v |-> AtLeast2d(a) \o <<row>>]

\* a[..., col] raises IndexError unless the last axis has more than col entries
EllipsisOk(a, col) ==
    IF a.ndim = 1 THEN col < Len(a.v) ELSE col < Len(a.v[1])

\* a[..., col], col counted from 0
EllipsisIndex(a, col) ==
    IF a.ndim = 1 THEN [ndim |-> 0, v |-> a.v[col + 1]]
    ELSE [ndim |-> 1, v |-> [i \in 1..Len(a.v) |-> a.v[i][col + 1]]]

(***************************************************************************)
(* CurveData and GraphData                                                 *)
(***************************************************************************)
\* CurveData.__init__
CurveData ==
    [curve_number |-> 0, start_date |-> <<>>, key |-> <<>>, duration |-> 0,
     points |-> 0, data |-> NpEmpty0]

\* GraphData.__init__
GraphData ==
    [names |-> <<>>, units |-> <<>>, curves |-> <<>>, sample_name |-> <<>>,
     date |-> <<>>, specific_info |-> <<>>, user_info |-> <<>>, comment |-> <<>>]

\* GraphData.__bool__
Bool(d) == d.curves # <<>>

\* GraphData.curve: raises IndexError when curves is empty
curve(d) == d.curves[Len(d.curves)]

\* list.index(x) + 1: 0 stands for the ValueError of an absent x
Index(list, x) ==
    LET at == {i \in 1..Len(list) : list[i] = x}
    IN  IF at = {} THEN 0 ELSE CHOOSE i \in at : \A j \in at : i <= j

\* the loop of GraphData.__getitem__ without its break: the last match wins
RECURSIVE ScanCurvesNoBreak(_, _, _)
ScanCurvesNoBreak(curves, curve_number, i) ==
    IF i > Len(curves) THEN 0
    ELSE IF ScanCurvesNoBreak(curves, curve_number, i + 1) # 0
         THEN ScanCurvesNoBreak(curves, curve_number, i + 1)
    ELSE IF curves[i].curve_number = curve_number THEN i
    ELSE 0

\* the loop of GraphData.__getitem__: the index (from 1) of the first curve at or
\* after position i that carries curve_number, 0 when the loop ends without a break
RECURSIVE ScanCurves(_, _, _)
ScanCurves(curves, curve_number, i) ==
    IF i > Len(curves) THEN 0
    ELSE IF curves[i].curve_number = curve_number THEN i
    ELSE ScanCurves(curves, curve_number, i + 1)

\* CurveData.__getitem__
CurveGetItem(c, col) ==
    IF EllipsisOk(c.data, col) THEN [exc |-> "none", value |-> EllipsisIndex(c.data, col)]
    ELSE [exc |-> "IndexError"]

\* GraphData.__getitem__
GetItem(d, curve_number, channel) ==
    LET col   == Index(d.names, channel)
        index == ScanCurves(d.curves, curve_number, 1)
    IN  IF col = 0 THEN [exc |-> "ValueError"]
        ELSE IF index = 0 THEN [exc |-> "IndexError"]
        ELSE CurveGetItem(d.curves[index], col - 1)

\* GraphData.unit
Unit(d, channel) ==
    LET col == Index(d.names, channel)
    IN  IF col = 0 THEN [exc |-> "ValueError"] ELSE [exc |-> "none", value |-> d.units[col]]

(***************************************************************************)
(* One pass of the loop of read_grd over a line.  s is the record of the   *)
(* loop's locals and of data; s.exc names the exception a statement raised *)
(***************************************************************************)
Raise(s, e) == [s EXCEPT !.exc = e]

\* the preamble's labels taken whatever first_lines is
PreambleAlways(s, l) ==
    IF StartsWith(l, TagStart) THEN [s EXCEPT !.first_lines = FALSE]
    ELSE
        LET parts == SplitSep(l, ":", 1)
            rest  == parts[Len(parts)]
        IN  IF StartsWith(l, TagSampleName) THEN [s EXCEPT !.data.sample_name = rest]
            ELSE IF StartsWith(l, TagDate) THEN [s EXCEPT !.data.date = rest]
            ELSE IF StartsWith(l, TagSpecificInf) THEN [s EXCEPT !.data.specific_info = rest]
            ELSE IF StartsWith(l, TagUserInfo) THEN [s EXCEPT !.data.user_info = rest]
            ELSE s

\* the preamble that "#START" does not end
PreambleNeverEnds(s, l) ==
    IF StartsWith(l, TagStart) THEN s
    ELSE IF s.first_lines THEN
        LET parts == SplitSep(l, ":", 1)
            rest  == parts[Len(parts)]
        IN  IF StartsWith(l, TagSampleName) THEN [s EXCEPT !.data.sample_name = rest]
            ELSE IF StartsWith(l, TagDate) THEN [s EXCEPT !.data.date = rest]
            ELSE IF StartsWith(l, TagSpecificInf) THEN [s EXCEPT !.data.specific_info = rest]
            ELSE IF StartsWith(l, TagUserInfo) THEN [s EXCEPT !.data.user_info = rest]
            ELSE s
    ELSE s

\* lines 109-119: the preamble
Preamble(s, l) ==
    IF StartsWith(l, TagStart) THEN [s EXCEPT !.first_lines = FALSE]
    ELSE IF s.first_lines THEN
        LET parts == SplitSep(l, ":", 1)
            rest  == parts[Len(parts)]
        IN  IF StartsWith(l, TagSampleName) THEN [s EXCEPT !.data.sample_name = rest]
            ELSE IF StartsWith(l, TagDate) THEN [s EXCEPT !.data.date = rest]
            ELSE IF StartsWith(l, TagSpecificInf) THEN [s EXCEPT !.data.specific_info = rest]
            ELSE IF StartsWith(l, TagUserInfo) THEN [s EXCEPT !.data.user_info = rest]
            ELSE s
    ELSE s

\* lines 123-130: a line met while reading_comment
CommentLine(s, l) ==
    IF StartsWith(l, TagEndComment) THEN
        [s EXCEPT !.reading_comment = FALSE,
                  !.data.comment = IF @ = << <<" ">> >> THEN <<>> ELSE @]
    ELSE [s EXCEPT !.data.comment = Append(@, Strip(l))]

\* lines 139-141: the channel name of an axis row
AxisName(l) ==
    LET tokens == Split(l, 10)
    IN  Replace(Strip(tokens[Len(tokens)]), " ", "_")

\* the unit taken from every row of two tokens or more
AxisUnitFromTwo(l) ==
    LET tokens == Split(l, 10)
    IN  IF Len(tokens) > 1 THEN Strip(tokens[Len(tokens) - 1]) ELSE <<>>

\* lines 142-146: the unit of an axis row
AxisUnit(l) ==
    LET tokens == Split(l, 10)
    IN  IF Len(Split(l, -1)) > 10 THEN Strip(tokens[Len(tokens) - 1]) ELSE <<>>

\* an axis row whose unit is appended only when the row holds one
AxisLineUnitIfAny(s, l) ==
    IF StartsWith(l, TagEndAxes) THEN [s EXCEPT !.reading_axes_description = -1]
    ELSE IF s.reading_axes_description > 0 THEN
        IF Split(l, 10) = <<>> THEN Raise(s, "IndexError")
        ELSE [s EXCEPT !.data.names = Append(@, AxisName(l)),
                       !.data.units = IF AxisUnit(l) = <<>> THEN @
                                      ELSE Append(@, AxisUnit(l)),
                       !.reading_axes_description = @ + 1]
    ELSE [s EXCEPT !.reading_axes_description = @ + 1]

\* lines 134-148: a line met while reading_axes_description != -1
AxisLine(s, l) ==
    IF StartsWith(l, TagEndAxes) THEN [s EXCEPT !.reading_axes_description = -1]
    ELSE IF s.reading_axes_description > 0 THEN
        IF Split(l, 10) = <<>> THEN Raise(s, "IndexError")
        ELSE [s EXCEPT !.data.names = Append(@, AxisName(l)),
                       !.data.units = Append(@, AxisUnit(l)),
                       !.reading_axes_description = @ + 1]
    ELSE [s EXCEPT !.reading_axes_description = @ + 1]

\* a curve description tag whose curve is put first in curves
CurveDescriptionFirst(s, l) ==
    LET t      == [s EXCEPT !.data.curves = <<CurveData>> \o @]
        tokens == Split(l, -1)
    IN  IF Len(tokens) < 4 THEN Raise(t, "IndexError")
        ELSE IF ~IsInt(tokens[4]) THEN Raise(t, "ValueError")
        ELSE [t EXCEPT !.data.curves[1].curve_number = IntVal(tokens[4]),
                       !.reading_data = FALSE]

\* lines 149-153: a curve description tag
CurveDescription(s, l) ==
    LET t      == [s EXCEPT !.data.curves = Append(@, CurveData)]
        tokens == Split(l, -1)
    IN  IF Len(tokens) < 4 THEN Raise(t, "IndexError")
        ELSE IF ~IsInt(tokens[4]) THEN Raise(t, "ValueError")
        ELSE [t EXCEPT !.data.curves[Len(t.data.curves)].curve_number = IntVal(tokens[4]),
                       !.reading_data = FALSE]

\* lines 154-156: a curve date tag
CurveDate(s, l) ==
    IF ~Bool(s.data) THEN Raise(s, "IndexError")
    ELSE [s EXCEPT !.data.curves[Len(s.data.curves)].start_date = SplitSep(l, ":", 1)[2]]

\* line 158: the tokens of a time tag
Times(l) == Split(SplitSep(l, ":", -1)[2], -1)

\* a time tag that is skipped when a token is no number
CurveTimeLenient(s, l) ==
    LET times == Times(l)
    IN  IF Len(times) < 2 THEN Raise(s, "IndexError")
        ELSE IF ~IsFloat(Replace(times[2], ",", ".")) THEN s
        ELSE IF ~IsFloat(Replace(times[1], ",", ".")) THEN s
        ELSE IF ~Bool(s.data) THEN Raise(s, "IndexError")
        ELSE [s EXCEPT !.data.curves[Len(s.data.curves)].duration =
                  FloatVal(Replace(times[2], ",", ".")) - FloatVal(Replace(times[1], ",", "."))]

\* a time tag whose duration is the first token minus the second
CurveTimeSwapped(s, l) ==
    LET times == Times(l)
    IN  IF Len(times) < 2 THEN Raise(s, "IndexError")
        ELSE IF ~IsFloat(Replace(times[2], ",", ".")) THEN Raise(s, "ValueError")
        ELSE IF ~IsFloat(Replace(times[1], ",", ".")) THEN Raise(s, "ValueError")
        ELSE IF ~Bool(s.data) THEN Raise(s, "IndexError")
        ELSE [s EXCEPT !.data.curves[Len(s.data.curves)].duration =
                  FloatVal(Replace(times[1], ",", ".")) - FloatVal(Replace(times[2], ",", "."))]

\* lines 157-162: a curve time tag
CurveTime(s, l) ==
    LET times == Times(l)
    IN  IF Len(times) < 2 THEN Raise(s, "IndexError")
        ELSE IF ~IsFloat(Replace(times[2], ",", ".")) THEN Raise(s, "ValueError")
        ELSE IF ~IsFloat(Replace(times[1], ",", ".")) THEN Raise(s, "ValueError")
        ELSE IF ~Bool(s.data) THEN Raise(s, "IndexError")
        ELSE [s EXCEPT !.data.curves[Len(s.data.curves)].duration =
                  FloatVal(Replace(times[2], ",", ".")) - FloatVal(Replace(times[1], ",", "."))]

\* lines 163-165: a curve legend tag
CurveLegend(s, l) ==
    IF Len(SplitSep(l, ":", 1)) < 2 THEN Raise(s, "IndexError")
    ELSE IF ~Bool(s.data) THEN Raise(s, "IndexError")
    ELSE [s EXCEPT !.data.curves[Len(s.data.curves)].key = SplitSep(l, ":", 1)[2]]

\* lines 166-170: the test for the point count tag of the current curve
IsCurvePoints(s, l) ==
    /\ Bool(s.data)
    /\ curve(s.data).curve_number # 0
    /\ StartsWith(l, TagCurveN \o FormatD(curve(s.data).curve_number))

\* lines 171-172: the point count tag of the current curve
CurvePoints(s, l) ==
    LET parts == SplitSep(l, "=", -1)
    IN  IF Len(parts) < 2 THEN Raise(s, "IndexError")
        ELSE IF ~IsInt(parts[2]) THEN Raise(s, "ValueError")
        ELSE [s EXCEPT !.data.curves[Len(s.data.curves)].points = IntVal(parts[2])]

\* lines 186 and 191: the floats of a data row; ValueError unless RowOk
Items(l) ==
    LET tokens == Split(l, -1)
    IN  [i \in 1..Len(tokens) |-> Replace(tokens[i], ",", ".")]

RowOk(l) ==
    LET items == Items(l)
    IN  \A i \in 1..Len(items) : IsFloat(items[i])

Row(l) ==
    LET items == Items(l)
    IN  [i \in 1..Len(items) |-> FloatVal(items[i])]

\* lines 176-194: a line met while reading_data
DataLine(s, l) ==
    LET c   == curve(s.data)
        row == Row(l)
    IN  IF ~Bool(s.data) THEN Raise(s, "IndexError")
        ELSE IF /\ c.curve_number # 0
                /\ StartsWith(l, TagEndCurveN \o FormatD(c.curve_number) \o TagDash)
             THEN [s EXCEPT !.reading_data = FALSE]
        ELSE IF ~RowOk(l) THEN Raise(s, "ValueError")
        ELSE IF Shape0(c.data) # 0 THEN
            IF VStackOk(c.data, row)
            THEN [s EXCEPT !.data.curves[Len(s.data.curves)].data = NpVStack(@, row)]
            ELSE Raise(s, "ValueError")
        ELSE [s EXCEPT !.data.curves[Len(s.data.curves)].data = NpFromIter(row)]

\* the tests in the order of the code, a data row taken without the test of
\* reading_data
DispatchDataAlways(s, l) ==
    IF StartsWith(l, TagStartComment) THEN [s EXCEPT !.reading_comment = TRUE]
    ELSE IF s.reading_comment THEN CommentLine(s, l)
    ELSE IF StartsWith(l, TagStartAxes) THEN [s EXCEPT !.reading_axes_description = 0]
    ELSE IF s.reading_axes_description # -1 THEN AxisLine(s, l)
    ELSE IF StartsWith(l, TagCurveDescription) THEN CurveDescription(s, l)
    ELSE IF StartsWith(l, TagCurveDate) THEN CurveDate(s, l)
    ELSE IF StartsWith(l, TagCurveTime) THEN CurveTime(s, l)
    ELSE IF StartsWith(l, TagCurveLegend) THEN CurveLegend(s, l)
    ELSE IF IsCurvePoints(s, l) THEN CurvePoints(s, l)
    ELSE IF StartsWith(l, TagCurveData) THEN [s EXCEPT !.reading_data = TRUE]
    ELSE DataLine(s, l)

\* the tests in the order of the code, a comment block's start leaving the
\* data block
DispatchCommentEndsData(s, l) ==
    IF StartsWith(l, TagStartComment)
    THEN [s EXCEPT !.reading_comment = TRUE, !.reading_data = FALSE]
    ELSE IF s.reading_comment THEN CommentLine(s, l)
    ELSE IF StartsWith(l, TagStartAxes) THEN [s EXCEPT !.reading_axes_description = 0]
    ELSE IF s.reading_axes_description # -1 THEN AxisLine(s, l)
    ELSE IF StartsWith(l, TagCurveDescription) THEN CurveDescription(s, l)
    ELSE IF StartsWith(l, TagCurveDate) THEN CurveDate(s, l)
    ELSE IF StartsWith(l, TagCurveTime) THEN CurveTime(s, l)
    ELSE IF StartsWith(l, TagCurveLegend) THEN CurveLegend(s, l)
    ELSE IF IsCurvePoints(s, l) THEN CurvePoints(s, l)
    ELSE IF StartsWith(l, TagCurveData) THEN [s EXCEPT !.reading_data = TRUE]
    ELSE IF s.reading_data THEN DataLine(s, l)
    ELSE s

\* the tests with the axis description's start tag before those of the comment
DispatchAxesFirst(s, l) ==
    IF StartsWith(l, TagStartAxes) THEN [s EXCEPT !.reading_axes_description = 0]
    ELSE IF StartsWith(l, TagStartComment) THEN [s EXCEPT !.reading_comment = TRUE]
    ELSE IF s.reading_comment THEN CommentLine(s, l)
    ELSE IF s.reading_axes_description # -1 THEN AxisLine(s, l)
    ELSE IF StartsWith(l, TagCurveDescription) THEN CurveDescription(s, l)
    ELSE IF StartsWith(l, TagCurveDate) THEN CurveDate(s, l)
    ELSE IF StartsWith(l, TagCurveTime) THEN CurveTime(s, l)
    ELSE IF StartsWith(l, TagCurveLegend) THEN CurveLegend(s, l)
    ELSE IF IsCurvePoints(s, l) THEN CurvePoints(s, l)
    ELSE IF StartsWith(l, TagCurveData) THEN [s EXCEPT !.reading_data = TRUE]
    ELSE IF s.reading_data THEN DataLine(s, l)
    ELSE s

\* lines 120-194: the tests after the preamble, in the order of the code
Dispatch(s, l) ==
    IF StartsWith(l, TagStartComment) THEN [s EXCEPT !.reading_comment = TRUE]
    ELSE IF s.reading_comment THEN CommentLine(s, l)
    ELSE IF StartsWith(l, TagStartAxes) THEN [s EXCEPT !.reading_axes_description = 0]
    ELSE IF s.reading_axes_description # -1 THEN AxisLine(s, l)
    ELSE IF StartsWith(l, TagCurveDescription) THEN CurveDescription(s, l)
    ELSE IF StartsWith(l, TagCurveDate) THEN CurveDate(s, l)
    ELSE IF StartsWith(l, TagCurveTime) THEN CurveTime(s, l)
    ELSE IF StartsWith(l, TagCurveLegend) THEN CurveLegend(s, l)
    ELSE IF IsCurvePoints(s, l) THEN CurvePoints(s, l)
    ELSE IF StartsWith(l, TagCurveData) THEN [s EXCEPT !.reading_data = TRUE]
    ELSE IF s.reading_data THEN DataLine(s, l)
    ELSE s

\* lines 108-194: the body of the loop
LoopBody(s, l) == Dispatch(Preamble(s, l), l)

(***************************************************************************)
(* read_grd as a state machine.  lines is not stored: the loop draws its   *)
(* next element when it reaches it, so a behaviour is a file, and leaving  *)
(* the loop is the end of the file.                                        *)
(***************************************************************************)
VARIABLES
    pc,                         \* where read_grd stands
    f_in,                       \* the file handle: "unopened", "open", "closed"
    line,                       \* the line the loop processed last
    first_lines, reading_comment, reading_axes_description, reading_data,
    data,                       \* the GraphData under construction
    exc                         \* the exception in flight, "none" without one

vars ==
    <<pc, f_in, line, first_lines, reading_comment, reading_axes_description,
      reading_data, data, exc>>

locals == <<first_lines, reading_comment, reading_axes_description, reading_data>>

\* line 99, before the with statement
Init ==
    /\ pc = "start"
    /\ f_in = "unopened"
    /\ line = <<>>
    /\ first_lines = TRUE
    /\ reading_comment = FALSE
    /\ reading_axes_description = -1
    /\ reading_data = FALSE
    /\ data = GraphData
    /\ exc = "none"

\* line 101: fn.open("rt") succeeds
Open ==
    /\ pc = "start"
    /\ f_in' = "open"
    /\ pc' = "opened"
    /\ UNCHANGED <<line, locals, data, exc>>

\* line 101: fn.open("rt") raises
OpenFails ==
    /\ pc = "start"
    /\ exc' = "OSError"
    /\ pc' = "raised"
    /\ UNCHANGED <<f_in, line, locals, data>>

\* the file is read and its handle closed before the loop
ReadThenClose ==
    /\ pc = "opened"
    /\ first_lines' = TRUE
    /\ reading_comment' = FALSE
    /\ reading_axes_description' = -1
    /\ reading_data' = FALSE
    /\ f_in' = "closed"
    /\ pc' = "loop"
    /\ UNCHANGED <<line, data, exc>>

\* lines 102-106: the whole file is read and split, the flags are set
Read ==
    /\ pc = "opened"
    /\ first_lines' = TRUE
    /\ reading_comment' = FALSE
    /\ reading_axes_description' = -1
    /\ reading_data' = FALSE
    /\ pc' = "loop"
    /\ UNCHANGED <<f_in, line, data, exc>>

\* line 102: f_in.read() raises
ReadFails ==
    /\ pc = "opened"
    /\ exc' = "UnicodeDecodeError"
    /\ pc' = "unwinding"
    /\ UNCHANGED <<f_in, line, locals, data>>

\* lines 108-194: the loop takes the next line l of lines
Process(l) ==
    /\ pc = "loop"
    /\ \E t \in {LoopBody([first_lines |-> first_lines, reading_comment |-> reading_comment,
                           reading_axes_description |-> reading_axes_description,
                           reading_data |-> reading_data, data |-> data,
                           exc |-> "none"], l)} :
        /\ line' = l
        /\ first_lines' = t.first_lines
        /\ reading_comment' = t.reading_comment
        /\ reading_axes_description' = t.reading_axes_description
        /\ reading_data' = t.reading_data
        /\ data' = t.data
        /\ exc' = t.exc
        /\ pc' = IF t.exc = "none" THEN "loop" ELSE "unwinding"
        /\ UNCHANGED f_in

\* lines 195-196: lines is exhausted and the with block is left
ExitWith ==
    /\ pc = "loop"
    /\ f_in' = "closed"
    /\ pc' = "after_with"
    /\ UNCHANGED <<line, locals, data, exc>>

\* an exception leaves read_grd past a handle no scope closes
RaisingWithoutExit ==
    /\ pc = "unwinding"
    /\ pc' = "raised"
    /\ UNCHANGED <<f_in, line, locals, data, exc>>

\* line 101: an exception leaves the with block, which closes the file
ExitWithRaising ==
    /\ pc = "unwinding"
    /\ f_in' = "closed"
    /\ pc' = "raised"
    /\ UNCHANGED <<line, locals, data, exc>>

\* line 197
Return ==
    /\ pc = "after_with"
    /\ pc' = "returned"
    /\ UNCHANGED <<f_in, line, locals, data, exc>>

\* every step of read_grd but the loop's
Control ==
    \/ Open
    \/ OpenFails
    \/ Read
    \/ ReadFails
    \/ ExitWith
    \/ ExitWithRaising
    \/ Return

(***************************************************************************)
(* The files.  Each family draws its lines from a few lines; the parsed    *)
(* structures are followed up to the sizes below.                          *)
(***************************************************************************)
MaxComment == 2
MaxNames == 2
MaxCurves == 1
MaxRows == 2
MaxLookupCurves == 2

\* the rows np.vstack has stacked, or the one row of np.fromiter
Rows(a) == IF a.ndim = 2 THEN Len(a.v) ELSE IF a.v = <<>> THEN 0 ELSE 1

Within(d, comment, names, curves, rows) ==
    /\ Len(d.comment) <= comment
    /\ Len(d.names) <= names
    /\ Len(d.curves) <= curves
    /\ \A i \in 1..Len(d.curves) : Rows(d.curves[i].data) <= rows

\* files of curve blocks with time tags and data rows, without axis description
CurveLines ==
    {LineCurveDesc1, LineCurveDate, LineTime, LineTimeDot, LineTimeBad, LineTimeExtra,
     LineTimeColon, LineTimeOne, LineCurveData, LineEndCurve1, LineRowA, LineRowC,
     LineRowBad, LineBlank}

ProcessLine ==
    \E l \in CurveLines : Process(l) /\ Within(data', 0, 0, MaxCurves, MaxRows)

Next == Control \/ ProcessLine

Spec == Init /\ [][Next]_vars

\* files of comment blocks
CommentLines == {LineStartComment, LineEndComment, LineSpace, LineBlank, LineText}

ProcessCommentLine ==
    \E l \in CommentLines : Process(l) /\ Within(data', MaxComment, 0, 0, 0)

NextComment == Control \/ ProcessCommentLine

SpecComment == Init /\ [][NextComment]_vars

\* files of axis description blocks
AxesLines ==
    {LineStartAxes, LineEndAxes, LineAxisHeader, LineAxis11, LineAxis12, LineAxis2,
     LineBlank}

ProcessAxesLine ==
    \E l \in AxesLines : Process(l) /\ Within(data', 0, MaxNames, 0, 0)

NextAxes == Control \/ ProcessAxesLine

SpecAxes == Init /\ [][NextAxes]_vars

\* files of axis description blocks of one kind of row and of curves of two numbers
LookupLines ==
    IF reading_axes_description # -1 THEN {LineAxis11, LineEndAxes}
    ELSE {LineStartAxes, LineCurveDesc1, LineCurveDesc2, LineCurveData, LineRowA,
          LineRowC}

ProcessLookupLine ==
    \E l \in LookupLines : Process(l) /\ Within(data', 0, MaxNames, MaxLookupCurves, MaxRows)

NextLookup == Control \/ ProcessLookupLine

SpecLookup == Init /\ [][NextLookup]_vars

\* files that mix preamble lines with comment blocks, axis description blocks
\* and curves: a block holds labelled lines and the tags that open another block
BlockLines ==
    IF reading_comment THEN {LineEndComment, LineSampleName}
    ELSE IF reading_axes_description # -1 THEN {LineEndAxes, LineStartComment, LineSampleName}
    ELSE {LineSampleName, LineDateTime, LineSpecificInf, LineUserInfo, LineStart,
          LineStartComment, LineStartAxes, LineCurveDesc1, LineCurveData, LineEndCurve1}

ProcessBlockLine ==
    \E l \in BlockLines : Process(l) /\ Within(data', MaxComment, MaxNames, MaxCurves, 0)

NextBlocks == Control \/ ProcessBlockLine

SpecBlocks == Init /\ [][NextBlocks]_vars

\* files of curves numbered 0 and 1, of their data blocks and of end tags of
\* both numbers
NumberedLines ==
    {LineCurveDesc0, LineCurveDesc1, LineCurveDescBad, LineCurveData, LineEndCurve0,
     LineEndCurve1, LineRowA, LineRowC, LineBlank}

ProcessNumberedLine ==
    \E l \in NumberedLines : Process(l) /\ Within(data', 0, 0, MaxLookupCurves, MaxRows)

NextNumbered == Control \/ ProcessNumberedLine

SpecNumbered == Init /\ [][NextNumbered]_vars

\* files of comment blocks that hold the tags of the other blocks
CommentTagLines ==
    IF reading_comment
    THEN {LineEndComment, LineStartComment, LineStartAxes, LineCurveDesc1, LineCurveData,
          LineSampleName, LineText}
    ELSE {LineStartComment, LineSampleName, LineCurveDesc1, LineCurveData}

ProcessCommentTagLine ==
    \E l \in CommentTagLines : Process(l) /\ Within(data', MaxComment, 0, MaxCurves, 0)

NextCommentTags == Control \/ ProcessCommentTagLine

SpecCommentTags == Init /\ [][NextCommentTags]_vars

\* files of axis description blocks that hold rows of all sizes, blank lines and
\* the start tags of both blocks
AxisTagLines == AxesLines \cup {LineStartComment, LineEndComment}

ProcessAxisTagLine ==
    \E l \in AxisTagLines : Process(l) /\ Within(data', 0, MaxNames, 0, 0)

NextAxisTags == Control \/ ProcessAxisTagLine

SpecAxisTags == Init /\ [][NextAxisTags]_vars

(***************************************************************************)
(* Properties                                                              *)
(***************************************************************************)
\* the columns of an array that holds at least one row
Cols(a) == Len(AtLeast2d(a)[1])

\* C1: a comment block whose one line is a single space leaves comment empty at
\* its end tag; a block of any other single line leaves that line, trimmed.
C1_OneLineCommentBlock ==
    [][(/\ pc = "loop" /\ pc' = "loop"
        /\ reading_comment /\ ~reading_comment'
        /\ Len(data.comment) = 1
        /\ ~StartsWith(line, TagStartComment))
       => data'.comment = IF line = <<" ">> THEN <<>> ELSE <<Strip(line)>>]_vars

\* a row has just been appended to the current curve
RowAppended ==
    /\ pc = "loop" /\ pc' = "loop"
    /\ Len(data'.curves) = Len(data.curves)
    /\ Bool(data)
    /\ Rows(curve(data').data) = Rows(curve(data).data) + 1

\* C2 as claimed: every curve that holds data has exactly len(names) columns.
C2_ColumnsEqualNames ==
    \A i \in 1..Len(data.curves) :
        Rows(data.curves[i].data) > 0 => Cols(data.curves[i].data) = Len(data.names)

\* C2 as amended: when a data row is appended to a curve, every row of that curve
\* has as many columns as the appended line has tokens, whatever len(names) is.
C2_ColumnsEqualTokens ==
    [][RowAppended =>
          \A r \in 1..Len(AtLeast2d(curve(data').data)) :
              Len(AtLeast2d(curve(data').data)[r]) = Len(Split(line', -1))]_vars

\* a parse returned a curve whose column count is not len(names), names not empty
C2_Witness ==
    /\ pc = "returned"
    /\ data.names # <<>>
    /\ \E i \in 1..Len(data.curves) :
          /\ Rows(data.curves[i].data) = 2
          /\ Cols(data.curves[i].data) # Len(data.names)

\* the curve numbers carried by the curves of d
Numbers(d) == {d.curves[i].curve_number : i \in 1..Len(d.curves)}

\* the channel names of d
Names(d) == {d.names[i] : i \in 1..Len(d.names)}

\* the rows appended to curve c, in the order of the file
RowsOf(c) == IF Rows(c.data) = 0 THEN <<>> ELSE AtLeast2d(c.data)

\* the least index of a curve of d that carries number n
First(d, n) ==
    CHOOSE i \in 1..Len(d.curves) :
        /\ d.curves[i].curve_number = n
        /\ \A j \in 1..(i - 1) : d.curves[j].curve_number # n

\* C3: on a returned GraphData the lookup of (N, C), N carried by a curve and C in
\* names, gives the sequence of the values at column names.index(C) of the rows
\* appended to that curve, as long as the rows, also for no row or one row; the
\* lookup of an absent N or C fails.
C3_LookupGivesColumn ==
    pc = "returned" =>
        /\ \A n \in Numbers(data), ch \in Names(data) :
              LET r    == GetItem(data, n, ch)
                  rows == RowsOf(data.curves[First(data, n)])
                  col  == Index(data.names, ch)
              IN  (\A i \in 1..Len(rows) : Len(rows[i]) >= col) =>
                      /\ r.exc = "none"
                      /\ r.value.ndim = 1
                      /\ r.value.v = [i \in 1..Len(rows) |-> rows[i][col]]
        /\ \A n \in 0..3, ch \in Names(data) \cup {<<"x">>} :
              (n \notin Numbers(data) \/ ch \notin Names(data)) =>
                  GetItem(data, n, ch).exc # "none"

\* C4: names and units have the same length in every state of read_grd and in
\* what it returns, also when the parse is aborted.
C4_NamesAlignUnits == Len(data.names) = Len(data.units)

\* a parse was aborted inside an axis description after rows with and without unit
C4_Witness ==
    /\ pc = "raised"
    /\ Len(data.names) = 2
    /\ data.units[1] = <<>>
    /\ data.units[2] # <<>>

\* the test of line 157 is reached for l and holds
AtTimeTag(l) ==
    /\ pc = "loop"
    /\ ~reading_comment
    /\ reading_axes_description = -1
    /\ StartsWith(l, TagCurveTime)

\* the branch of line 176 is reached for l and l is not the end tag of line 177
AtDataRow(l) ==
    /\ pc = "loop"
    /\ ~reading_comment
    /\ reading_axes_description = -1
    /\ reading_data
    /\ \A tag \in {TagStartComment, TagStartAxes, TagCurveDescription, TagCurveDate,
                   TagCurveTime, TagCurveLegend, TagCurveData} : ~StartsWith(l, tag)
    /\ (Bool(data) /\ curve(data).curve_number # 0) =>
          /\ ~StartsWith(l, TagCurveN \o FormatD(curve(data).curve_number))
          /\ ~StartsWith(l, TagEndCurveN \o FormatD(curve(data).curve_number) \o TagDash)

\* t is a number once its commas are dots
Numeric(t) == IsFloat(Replace(t, ",", "."))

\* the whitespace-separated tokens after the first colon of l
TokensAfterColon(l) == Split(SplitSep(l, ":", 1)[2], -1)

\* an error is in flight after the step; it ends read_grd without a result
Aborts == pc' = "unwinding" /\ exc' # "none"

\* no line is processed and nothing is returned once an error is in flight
NoRecovery == pc \in {"unwinding", "raised"} => pc' \in {"unwinding", "raised"}

\* C5 as claimed: a data row or a time tag that holds a token that is no number
\* ends read_grd with an error at that line.
C5_BadTokenAborts ==
    [][/\ (\/ /\ AtTimeTag(line')
              /\ \E i \in 1..Len(TokensAfterColon(line')) : ~Numeric(TokensAfterColon(line')[i])
           \/ /\ AtDataRow(line')
              /\ \E i \in 1..Len(Split(line', -1)) : ~Numeric(Split(line', -1)[i]))
          => Aborts
       /\ NoRecovery]_vars

\* C5 as amended: a data row that holds a token that is no number, or a time tag
\* whose first or second token, of the text between its first and second colon,
\* is no number, ends read_grd with an error at that line; later tokens of a time
\* tag are not parsed.
C5_ParsedBadTokenAborts ==
    [][/\ (\/ /\ AtTimeTag(line')
              /\ \E i \in 1..Len(Times(line')) : i <= 2 /\ ~Numeric(Times(line')[i])
           \/ /\ AtDataRow(line')
              /\ \E i \in 1..Len(Split(line', -1)) : ~Numeric(Split(line', -1)[i]))
          => Aborts
       /\ NoRecovery]_vars

\* a time tag with a bad second token ended a parse that had a curve
C5_Witness ==
    /\ pc = "raised"
    /\ exc = "ValueError"
    /\ line = LineTimeBad
    /\ Bool(data)

\* C6: a file without curve description tag is parsed without error, to a
\* GraphData without curves; names and units change only inside an axis
\* description, so that a file without one returns them empty.
C6_NoCurveNoError ==
    /\ [](exc \in {"IndexError", "ValueError"} => data.curves # <<>>)
    /\ [][(data'.names # data.names \/ data'.units # data.units)
             => reading_axes_description > 0]_vars

\* C7: the lookup of (N, C) for a number N that several curves carry gives what
\* the first of these curves gives for the column of C, and fails only if that
\* curve's own lookup fails.
C7_FirstMatchWins ==
    pc = "returned" =>
        \A n \in Numbers(data), ch \in Names(data) :
            GetItem(data, n, ch) =
                CurveGetItem(data.curves[First(data, n)], Index(data.names, ch) - 1)

\* two curves carry one number, the first with two rows and the second with one
C7_Witness ==
    /\ pc = "returned"
    /\ data.names # <<>>
    /\ \E i, j \in 1..Len(data.curves) :
          /\ i < j
          /\ data.curves[i].curve_number = data.curves[j].curve_number
          /\ Rows(data.curves[i].data) = 2
          /\ Rows(data.curves[j].data) = 1

\* C8 as claimed: the handle is closed before the first line is processed.
C8_ClosedBeforeLoop == pc = "loop" => f_in = "closed"

\* C8 as amended: the whole file is read before the first line is processed, the
\* handle stays open while lines are processed and is closed when the loop is left.
C8_OpenWhileLooping ==
    /\ pc \in {"loop", "unwinding"} => f_in = "open"
    /\ pc = "after_with" => f_in = "closed"
    /\ pc \in {"start", "opened"} => line = <<>> /\ data = GraphData

\* lines have been processed and the handle is open
C8_Witness == pc = "loop" /\ f_in = "open" /\ Bool(data) /\ Rows(curve(data).data) = 2

\* C9: once the file was opened, the handle is closed when control has left
\* read_grd, by return or by an error.
C9_ClosedOnExit == pc \in {"returned", "raised"} /\ exc # "OSError" => f_in = "closed"

\* an error raised by a data row has left read_grd
C9_Witness == pc = "raised" /\ exc = "ValueError" /\ reading_data /\ f_in = "closed"

\* the second minus the first of the tokens after the colon of a time tag
Difference(l) ==
    FloatVal(Replace(TokensAfterColon(l)[2], ",", "."))
        - FloatVal(Replace(TokensAfterColon(l)[1], ",", "."))

\* C10: a time tag sets the duration of the current curve to its second token
\* minus its first, a comma read as a decimal point; no other line changes the
\* duration of a curve, so that the last time tag of a curve decides.
C10_DurationIsDifference ==
    [][/\ pc = "loop" /\ pc' = "loop"
       => IF AtTimeTag(line')
          THEN (/\ Len(TokensAfterColon(line')) >= 2
                /\ Numeric(TokensAfterColon(line')[1])
                /\ Numeric(TokensAfterColon(line')[2]))
               => curve(data').duration = Difference(line')
          ELSE \A i \in 1..Len(data.curves) :
                   data'.curves[i].duration = data.curves[i].duration]_vars

\* a time tag of tokens 10,0 and 12,5 has set the duration of a dated curve to 2.5
C10_Witness ==
    /\ pc = "loop"
    /\ line = LineTime
    /\ curve(data).duration = 25
    /\ curve(data).start_date # <<>>

\* l starts with one of the tags read_grd tests for
Recognized(l) ==
    \E tag \in {TagStart, TagSampleName, TagDate, TagSpecificInf, TagUserInfo,
                TagEndComment, TagEndAxes, TagEndCurveN} : StartsWith(l, tag)

\* the step is a pass of the loop over line'
LoopStep == pc = "loop" /\ pc' \in {"loop", "unwinding"}

\* C11: a line that starts with no recognized tag, met while no block flag is
\* active, raises nothing and leaves every flag and all of data unchanged, with
\* or without a curve.
C11_UnrecognizedIgnored ==
    [][(/\ LoopStep
        /\ ~reading_comment
        /\ reading_axes_description = -1
        /\ ~reading_data
        /\ ~Recognized(line'))
       => /\ pc' = "loop"
          /\ exc' = "none"
          /\ UNCHANGED <<locals, data>>]_vars

\* a data row met outside the data block of an existing curve was skipped
C11_Witness ==
    /\ pc = "loop"
    /\ line = LineRowA
    /\ ~reading_data
    /\ Bool(data)
    /\ Rows(curve(data).data) = 0

\* the flags that are active
ActiveFlags ==
    {f \in {"first_lines", "reading_comment", "reading_axes_description", "reading_data"} :
        \/ f = "first_lines" /\ first_lines
        \/ f = "reading_comment" /\ reading_comment
        \/ f = "reading_axes_description" /\ reading_axes_description # -1
        \/ f = "reading_data" /\ reading_data}

\* C12 as stated: at most one of first_lines, reading_comment,
\* reading_axes_description # -1 and reading_data is active in every state.
C12_FlagsExclusive == Cardinality(ActiveFlags) <= 1

\* C12: first_lines is active only alone, and a step that opens one of the
\* three blocks leaves the flags of the other two as they were, so that two or
\* three of them are active together.
C12_PreambleExclusive ==
    /\ [](first_lines => ActiveFlags = {"first_lines"})
    /\ [][/\ (~reading_comment /\ reading_comment')
                => UNCHANGED <<reading_axes_description, reading_data>>
          /\ (reading_axes_description = -1 /\ reading_axes_description' # -1)
                => UNCHANGED <<reading_comment, reading_data>>
          /\ (~reading_data /\ reading_data')
                => UNCHANGED <<reading_comment, reading_axes_description>>]_vars

\* a comment block opened inside an axis description block that was opened
\* inside a data block
C12_Witness ==
    /\ pc = "loop"
    /\ ActiveFlags = {"reading_comment", "reading_axes_description", "reading_data"}

\* l is "#END Curve n -" for an integer n
IsEndTag(l) ==
    /\ StartsWith(l, TagEndCurveN)
    /\ LET tokens == Split(l, -1)
       IN  /\ Len(tokens) >= 3
           /\ IsInt(tokens[3])
           /\ StartsWith(l, TagEndCurveN \o FormatD(IntVal(tokens[3])) \o TagDash)

\* the number an end tag names
EndTagNumber(l) == IntVal(Split(l, -1)[3])

\* C13 as stated: in the data block of a curve of any number N, 0 included, an
\* end tag that names N ends the block, raises nothing and stores no row, and
\* an end tag that names another number leaves reading_data on.
C13_EndTagEndsData ==
    [][(/\ LoopStep
        /\ ~reading_comment
        /\ reading_axes_description = -1
        /\ reading_data
        /\ Bool(data)
        /\ IsEndTag(line'))
       => IF EndTagNumber(line') = curve(data).curve_number
          THEN pc' = "loop" /\ ~reading_data' /\ data' = data
          ELSE reading_data']_vars

\* the rows of a matrix; the array of a new curve holds none
MatrixRows(a) == IF a.ndim = 2 THEN Len(a.v) ELSE 0

\* C14 as stated: every line consumed as a data row leaves the curve's data a
\* 2-D matrix with one row more than before, the new row last; the first row
\* gives a matrix of one row and a blank line gives a row too.
C14_OneRowPerLine ==
    [][(AtDataRow(line') /\ pc' = "loop")
       => LET before == curve(data).data
              after  == curve(data').data
          IN  /\ after.ndim = 2
              /\ MatrixRows(after) = MatrixRows(before) + 1
              /\ after.v[MatrixRows(after)] = Row(line')]_vars

\* the step appends line', stripped, to comment and changes nothing else
CommentAppended ==
    /\ pc' = "loop"
    /\ exc' = "none"
    /\ UNCHANGED locals
    /\ data' = [data EXCEPT !.comment = Append(@, Strip(line'))]

\* C15 as stated: inside a comment block every line but the end tag is
\* appended to comment, stripped, and changes nothing else, the comment start
\* tag included.
C15_EveryLineAppended ==
    [][(LoopStep /\ reading_comment /\ ~StartsWith(line', TagEndComment))
       => CommentAppended]_vars

\* C15: inside a comment block every line that starts with neither comment tag
\* is appended to comment, stripped, and changes nothing else, whatever other
\* tag it starts with; a line that starts with the comment start tag is dropped
\* and changes nothing.
C15_OtherLinesAppended ==
    [][(LoopStep /\ reading_comment /\ ~StartsWith(line', TagEndComment))
       => IF StartsWith(line', TagStartComment)
          THEN pc' = "loop" /\ exc' = "none" /\ UNCHANGED <<locals, data>>
          ELSE CommentAppended]_vars

\* a curve description tag was stored as a comment line inside a data block of
\* an existing curve
C15_Witness ==
    /\ pc = "loop"
    /\ reading_comment
    /\ reading_data
    /\ line = LineCurveDesc1
    /\ Len(data.curves) = 1
    /\ data.comment # <<>>
    /\ data.comment[Len(data.comment)] = LineCurveDesc1

\* l carries an integer as its fourth token
HasNumber(l) ==
    LET tokens == Split(l, -1)
    IN  Len(tokens) >= 4 /\ IsInt(tokens[4])

\* the fourth token of a curve description tag
TagNumber(l) == IntVal(Split(l, -1)[4])

\* the curve numbers of d in the order of curves
NumberSeq(d) == [i \in 1..Len(d.curves) |-> d.curves[i].curve_number]

\* C16: a curve description tag with a number, met outside a comment block and
\* an axis description block, appends one curve of that number at the end of
\* curves and sets reading_data false; no step removes a curve, reorders curves
\* or changes the number of a curve already in curves, and no other line that
\* is processed without an error changes the length of curves.
C16_CurvesInTagOrder ==
    [][/\ LoopStep =>
            /\ Len(data'.curves) >= Len(data.curves)
            /\ \A i \in 1..Len(data.curves) :
                   data'.curves[i].curve_number = data.curves[i].curve_number
            /\ IF /\ ~reading_comment
                  /\ reading_axes_description = -1
                  /\ StartsWith(line', TagCurveDescription)
                  /\ HasNumber(line')
               THEN /\ pc' = "loop"
                    /\ NumberSeq(data') = Append(NumberSeq(data), TagNumber(line'))
                    /\ ~reading_data'
               ELSE pc' = "loop" => Len(data'.curves) = Len(data.curves)
       /\ ~LoopStep => data' = data]_vars

\* the tag of curve 0 was met in the data block of curve 1, which holds a row
C16_Witness ==
    /\ pc = "loop"
    /\ line = LineCurveDesc0
    /\ NumberSeq(data) = <<1, 0>>
    /\ Rows(data.curves[1].data) = 1
    /\ ~reading_data

\* the four fields of the preamble
Metadata(d) == <<d.sample_name, d.date, d.specific_info, d.user_info>>

\* the text of l after its first colon
AfterColon(l) == SubSeq(l, Find(l, ":") + 1, Len(l))

\* C17: first_lines never becomes true again and a line that starts with
\* "#START" makes it false; once it is false the four fields of the preamble
\* never change, whatever label a line starts with; while it is true a line
\* that starts with a label sets the label's field to the text after the
\* line's first colon.
C17_PreambleOnce ==
    [][/\ ~first_lines => (~first_lines' /\ Metadata(data') = Metadata(data))
       /\ (LoopStep /\ StartsWith(line', TagStart)) => ~first_lines'
       /\ (LoopStep /\ first_lines) =>
            /\ StartsWith(line', TagSampleName) => data'.sample_name = AfterColon(line')
            /\ StartsWith(line', TagDate) => data'.date = AfterColon(line')
            /\ StartsWith(line', TagSpecificInf) => data'.specific_info = AfterColon(line')
            /\ StartsWith(line', TagUserInfo) => data'.user_info = AfterColon(line')]_vars

\* a sample name line met after "#START" left sample_name empty, and date
\* holds the text after the first of two colons
C17_Witness ==
    /\ pc = "loop"
    /\ ~first_lines
    /\ line = LineSampleName
    /\ data.sample_name = <<>>
    /\ data.date = <<" ", "1", ":", "2">>

\* C19: while first_lines is true no block is open and names, units, comment
\* and curves are empty, so a line that sets a field of the preamble is taken
\* by no other branch.
C19_PreambleAlone ==
    first_lines =>
        /\ ~reading_comment
        /\ reading_axes_description = -1
        /\ ~reading_data
        /\ data.names = <<>>
        /\ data.units = <<>>
        /\ data.comment = <<>>
        /\ data.curves = <<>>

\* two labelled lines were processed in the preamble
C19_Witness ==
    /\ pc = "loop"
    /\ first_lines
    /\ line = LineUserInfo
    /\ data.user_info # <<>>
    /\ data.sample_name # <<>>

\* the step appends to names and units the entries the specification gives for line'
AxisRowAppended ==
    LET tokens == Split(line', 10)
        name   == Replace(Strip(tokens[Len(tokens)]), " ", "_")
        unit   == IF Len(Split(line', -1)) >= 11 THEN tokens[Len(tokens) - 1] ELSE <<>>
    IN  /\ pc' = "loop"
        /\ Len(data'.names) = Len(data.names) + 1
        /\ Len(data'.units) = Len(data.units) + 1
        /\ data' = [data EXCEPT !.names = Append(@, name), !.units = Append(@, unit)]

\* the step is a pass of the loop that reaches the axis description block's branch
InAxisBlock == LoopStep /\ ~reading_comment /\ reading_axes_description # -1

C20_NoRaggedMatrix ==
    /\ [](\A i \in 1..Len(data.curves) :
            LET a == data.curves[i].data
            IN  a.ndim = 2 => \A j \in 1..Len(a.v) : Len(a.v[j]) = Len(a.v[1]))
    /\ [][(/\ AtDataRow(line')
           /\ Bool(data)
           /\ Rows(curve(data).data) > 0
           /\ Len(Split(line', -1)) # Cols(curve(data).data))
          => Aborts /\ data' = data]_vars

\* a blank line after a stored row ended the parse with an error
C20_Witness ==
    /\ pc = "raised"
    /\ exc = "ValueError"
    /\ line = LineBlank
    /\ Bool(data)
    /\ Rows(curve(data).data) = 1
    /\ Cols(curve(data).data) = 2

=============================================================================
